---- MODULE Spec2Model ----
(***************************************************************************)
(* GitHub Pages MCP server (src/src/index.ts): the tool dispatcher, the    *)
(* five tool handlers, the zod input schemas they parse with, and the      *)
(* upstream Git object store the deploy handler writes to.                 *)
(***************************************************************************)
EXTENDS Integers, Sequences, FiniteSets, TLC

(***************************************************************************)
(* Bounds of the model.                                                    *)
(***************************************************************************)
\* longest `files` array a request carries
MaxFiles == 2

(***************************************************************************)
(* JSON values of a request: a tagged value, so that a missing key         *)
(* (undefined), null, a number and a string are all distinct.              *)
(***************************************************************************)
Undefined == [t |-> "undefined", v |-> ""]
Null == [t |-> "null", v |-> ""]
Num == [t |-> "number", v |-> "7"]
Str(s) == [t |-> "string", v |-> s]

\* JavaScript truthiness of a value (used by `x || d` and `if (x)`)
Truthy(val) ==
    CASE val.t = "undefined" -> FALSE
      [] val.t = "null" -> FALSE
      [] val.t = "string" -> val.v # ""
      [] OTHER -> TRUE

\* JavaScript `val || dflt`
OrElse(val, dflt) == IF Truthy(val) THEN val ELSE dflt

(***************************************************************************)
(* zod: every check yields the sequence of issues it raises, each          *)
(* {path, message} with path the sequence of keys from the root; parse     *)
(* throws a ZodError iff the sequence is not empty.                        *)
(***************************************************************************)
Issue(path, message) == [path |-> path, message |-> message]

\* z.string()
ZString(path, val) ==
    CASE val.t = "string" -> <<>>
      [] val.t = "undefined" -> <<Issue(path, "Required")>>
      [] OTHER -> <<Issue(path, "Expected string, received " \o val.t)>>

\* z.string().optional()
ZOptionalString(path, val) ==
    IF val.t = "undefined" THEN <<>> ELSE ZString(path, val)

\* z.enum([...]); `shown` is the option list as zod prints it
ZEnum(path, val, options, shown) ==
    CASE val.t = "undefined" -> <<Issue(path, "Required")>>
      [] val.t # "string" ->
            <<Issue(path, "Expected " \o shown \o ", received " \o val.t)>>
      [] val.v \notin options ->
            <<Issue(path, "Invalid enum value. Expected " \o shown
                          \o ", received '" \o val.v \o "'")>>
      [] OTHER -> <<>>

\* z.enum([...]).optional()
ZOptionalEnum(path, val, options, shown) ==
    IF val.t = "undefined" THEN <<>> ELSE ZEnum(path, val, options, shown)

PathOptions == {"/", "/docs"}
BuildTypeOptions == {"legacy", "workflow"}
EncodingOptions == {"utf-8", "base64"}

\* ZSource with branch declared optional
ZSource_BranchOptional(source) ==
    CASE source.t = "object" ->
            ZOptionalString(<<"source", "branch">>, source.branch)
            \o ZOptionalEnum(<<"source", "path">>, source.path, PathOptions, "'/' | '/docs'")
      [] source.t = "undefined" -> <<Issue(<<"source">>, "Required")>>
      [] OTHER -> <<Issue(<<"source">>, "Expected object, received " \o source.t)>>

\* source: z.object({branch: z.string(), path: z.enum(["/", "/docs"]).optional()})
ZSource(source) ==
    CASE source.t = "object" ->
            ZString(<<"source", "branch">>, source.branch)
            \o ZOptionalEnum(<<"source", "path">>, source.path, PathOptions, "'/' | '/docs'")
      [] source.t = "undefined" -> <<Issue(<<"source">>, "Required")>>
      [] OTHER -> <<Issue(<<"source">>, "Expected object, received " \o source.t)>>

\* ZOptionalSource with path declared z.string().optional()
ZOptionalSource_AnyPath(source) ==
    CASE source.t = "undefined" -> <<>>
      [] source.t = "object" ->
            ZString(<<"source", "branch">>, source.branch)
            \o ZOptionalString(<<"source", "path">>, source.path)
      [] OTHER -> <<Issue(<<"source">>, "Expected object, received " \o source.t)>>

\* source: z.object({...}).optional()
ZOptionalSource(source) ==
    IF source.t = "undefined" THEN <<>> ELSE ZSource(source)

\* one element of files: z.object({path, content, encoding?}), at index i (0-based)
ZFile(i, file) ==
    LET at == <<"files", ToString(i)>>
    IN  ZString(at \o <<"path">>, file.path)
        \o ZString(at \o <<"content">>, file.content)
        \o ZOptionalEnum(at \o <<"encoding">>, file.encoding, EncodingOptions,
                         "'utf-8' | 'base64'")

RECURSIVE ZFileItems(_, _)
\* the issues of items[k..], in array order
ZFileItems(items, k) ==
    IF k > Len(items) THEN <<>>
    ELSE ZFile(k - 1, items[k]) \o ZFileItems(items, k + 1)

\* files: z.array(z.object({...})).optional()
ZOptionalFiles(files) ==
    CASE files.t = "undefined" -> <<>>
      [] files.t = "array" -> ZFileItems(files.items, 1)
      [] OTHER -> <<Issue(<<"files">>, "Expected array, received " \o files.t)>>

\* z.object({...}) at the root: the issues of the keys, if args is an object
ZObject(args, keyIssues) ==
    CASE args.t = "object" -> keyIssues
      [] args.t = "undefined" -> <<Issue(<<>>, "Required")>>
      [] OTHER -> <<Issue(<<>>, "Expected object, received " \o args.t)>>

EnableGithubPagesSchema(args) ==
    ZObject(args,
        ZString(<<"owner">>, args.owner)
        \o ZString(<<"repo">>, args.repo)
        \o ZSource(args.source)
        \o ZOptionalEnum(<<"build_type">>, args.build_type, BuildTypeOptions,
                         "'legacy' | 'workflow'"))

GetGithubPagesInfoSchema(args) ==
    ZObject(args, ZString(<<"owner">>, args.owner) \o ZString(<<"repo">>, args.repo))

DeployToGithubPagesSchema(args) ==
    ZObject(args,
        ZString(<<"owner">>, args.owner)
        \o ZString(<<"repo">>, args.repo)
        \o ZString(<<"branch">>, args.branch)
        \o ZOptionalString(<<"message">>, args.message)
        \o ZOptionalFiles(args.files))

DisableGithubPagesSchema(args) ==
    ZObject(args, ZString(<<"owner">>, args.owner) \o ZString(<<"repo">>, args.repo))

UpdateGithubPagesConfigSchema(args) ==
    ZObject(args,
        ZString(<<"owner">>, args.owner)
        \o ZString(<<"repo">>, args.repo)
        \o ZOptionalSource(args.source)
        \o ZOptionalEnum(<<"build_type">>, args.build_type, BuildTypeOptions,
                         "'legacy' | 'workflow'")
        \o ZOptionalString(<<"cname">>, args.cname))

(***************************************************************************)
(* The requests a client sends. args is request.params.arguments: an       *)
(* object, or undefined when the request has none. An object carries every *)
(* key of every schema; a key that is not sent is Undefined, and zod       *)
(* strips the keys a schema does not name.                                 *)
(***************************************************************************)
ToolNames == {"enable_github_pages", "get_github_pages_info",
              "deploy_to_github_pages", "disable_github_pages",
              "update_github_pages_config"}
UnknownNames == {"list_github_pages", ""}

NoSource == [t |-> "undefined", v |-> "", branch |-> Undefined, path |-> Undefined]
SourceValues ==
    {NoSource, [t |-> "string", v |-> "main", branch |-> Undefined, path |-> Undefined]}
    \cup {[t |-> "object", v |-> "", branch |-> b, path |-> q] :
            b \in {Undefined, Num, Str("main")},
            q \in {Undefined, Str("/"), Str("/docs"), Str("/site"), Str("")}}
BuildTypeValues == {Undefined, Str("legacy"), Str("workflow"), Str("jekyll")}
CnameValues == {Undefined, Null, Str(""), Str("example.com")}
OwnerValues == {Undefined, Num, Str("octo")}
RepoValues == {Undefined, Null, Str("site")}
BranchValues == {Undefined, Num, Str("main")}
MessageValues == {Undefined, Str(""), Str("publish")}

FileValues ==
    { [path |-> Str("a.txt"), content |-> Str("x"), encoding |-> Undefined],
      [path |-> Str("b.txt"), content |-> Str("eQ=="), encoding |-> Str("base64")],
      [path |-> Undefined, content |-> Str("x"), encoding |-> Str("utf-8")],
      [path |-> Str("a.txt"), content |-> Num, encoding |-> Str("gzip")] }
NoFiles == [t |-> "undefined", items |-> <<>>]
FilesValues ==
    {NoFiles}
    \cup {[t |-> "array", items |-> fs] :
            fs \in UNION {[1..n -> FileValues] : n \in 0..MaxFiles}}

NoArgs == [t |-> "object", owner |-> Undefined, repo |-> Undefined, source |-> NoSource,
           build_type |-> Undefined, cname |-> Undefined, branch |-> Undefined,
           message |-> Undefined, files |-> NoFiles]

\* a request without arguments
MissingArgs == [NoArgs EXCEPT !.t = "undefined"]

OwnerRepoObjects ==
    {[NoArgs EXCEPT !.owner = o, !.repo = r] : o \in OwnerValues, r \in RepoValues}
EnableObjects ==
    {[a EXCEPT !.source = s, !.build_type = b] :
        a \in OwnerRepoObjects, s \in SourceValues, b \in BuildTypeValues}
OwnerRepoArgs == OwnerRepoObjects \cup {MissingArgs}
EnableArgs == EnableObjects \cup {MissingArgs}
UpdateArgs ==
    {[a EXCEPT !.cname = c] : a \in EnableObjects, c \in CnameValues}
    \cup {MissingArgs}
DeployArgs ==
    {[a EXCEPT !.branch = b, !.message = m, !.files = f] :
        a \in OwnerRepoObjects, b \in BranchValues, m \in MessageValues,
        f \in FilesValues}
    \cup {MissingArgs}

(***************************************************************************)
(* What a tool call ends with: a returned MCP result {content, isError?}   *)
(* whose text is the JSON of `body`, or a thrown Error.                    *)
(***************************************************************************)
Pending == [kind |-> "pending"]
Return(body) == [kind |-> "return", body |-> body, isError |-> "absent"]
ReturnIsError(body) == [kind |-> "return", body |-> body, isError |-> "true"]
Throw(message) == [kind |-> "throw", message |-> message]

RECURSIVE Join(_, _)
\* Array.prototype.join
Join(strs, sep) ==
    IF strs = <<>> THEN ""
    ELSE IF Len(strs) = 1 THEN strs[1]
    ELSE strs[1] \o sep \o Join(Tail(strs), sep)

\* InvalidArguments reporting only the first issue
InvalidArguments_FirstOnly(issues) ==
    Throw("Invalid arguments: "
          \o Join(issues[1].path, ".") \o ": " \o issues[1].message)

\* the catch of the CallTool handler, for a ZodError with these issues
InvalidArguments(issues) ==
    Throw("Invalid arguments: "
          \o Join([i \in 1..Len(issues) |->
                     Join(issues[i].path, ".") \o ": " \o issues[i].message],
                  ", "))

\* the default of the switch
UnknownToolError(name) == Throw("Unknown tool: " \o name)

(***************************************************************************)
(* Upstream answers. A call succeeds or fails with one of these errors; an *)
(* error without a status or response body is a transport failure.         *)
(***************************************************************************)
UpstreamErrors ==
    { [status |-> 404, message |-> "Not Found", data |-> "{message: Not Found}"],
      [status |-> 401, message |-> "Bad credentials", data |-> ""],
      [message |-> "fetch failed"] }

\* no error was caught
NoError == [none |-> TRUE]

\* error.status === 404
IsNotFound(error) == "status" \in DOMAIN error /\ error.status = 404

\* error.response?.data || "Unknown error"
Details(error) ==
    IF "data" \in DOMAIN error /\ error.data # "" THEN error.data
    ELSE "Unknown error"

\* the body every catch block of a handler builds
FailureBody(error) ==
    [success |-> FALSE, error |-> error.message, details |-> Details(error)]

\* response.data of the Pages calls
PagesData ==
    { [html_url |-> "https://octo.github.io/site/", status |-> "built",
       cname |-> Null, custom_404 |-> FALSE,
       source |-> [branch |-> "main", path |-> "/"],
       build_type |-> "legacy", public |-> TRUE],
      [html_url |-> "https://example.com/", status |-> "building",
       cname |-> Str("example.com"), custom_404 |-> TRUE,
       source |-> [branch |-> "main", path |-> "/docs"],
       build_type |-> "workflow", public |-> TRUE] }

(***************************************************************************)
(* The single-call handlers.                                               *)
(***************************************************************************)
Call(op, params) == [op |-> op, params |-> params]

\* CreatePagesSiteParams that always sends the defaults
CreatePagesSiteParams_AlwaysDefault(args) ==
    [owner |-> args.owner, repo |-> args.repo,
     source |-> [branch |-> args.source.branch, path |-> Str("/")],
     build_type |-> Str("legacy")]

\* the request enableGithubPages sends to repos.createPagesSite
CreatePagesSiteParams(args) ==
    [owner |-> args.owner, repo |-> args.repo,
     source |-> [branch |-> args.source.branch,
                 path |-> OrElse(args.source.path, Str("/"))],
     build_type |-> OrElse(args.build_type, Str("legacy"))]

EnableSuccessBody(data) ==
    [success |-> TRUE, message |-> "GitHub Pages enabled successfully",
     url |-> data.html_url, source |-> data.source, build_type |-> data.build_type]

GetInfoSuccessBody(data) ==
    [success |-> TRUE, url |-> data.html_url, status |-> data.status,
     cname |-> data.cname, custom_404 |-> data.custom_404, source |-> data.source,
     build_type |-> data.build_type, public |-> data.public]

\* GetInfoFailure without the 404 branch
GetInfoFailure_No404(error) == ReturnIsError(FailureBody(error))

\* the catch block of getGithubPagesInfo
GetInfoFailure(error) ==
    IF IsNotFound(error)
    THEN Return([success |-> FALSE,
                 error |-> "GitHub Pages is not enabled for this repository"])
    ELSE ReturnIsError(FailureBody(error))

DisableSuccessBody ==
    [success |-> TRUE, message |-> "GitHub Pages disabled successfully"]

\* the path updateGithubPagesConfig computes for a given source
UpdateSourcePath(source) == OrElse(source.path, Str("/"))

\* new Error("Invalid path: must be '/' or '/docs'")
InvalidPathError == [message |-> "Invalid path: must be '/' or '/docs'"]

\* the local check of updateGithubPagesConfig throws
UpdateInvalidPath(args) ==
    /\ Truthy(args.source)
    /\ UpdateSourcePath(args.source).v \notin {"/", "/docs"}

\* updateParams as sent to repos.updateInformationAboutPagesSite: a record
\* holding exactly the keys the handler assigned
UpdateParams(args) ==
    [owner |-> args.owner, repo |-> args.repo]
    @@ (IF Truthy(args.source)
        THEN [source |-> [branch |-> args.source.branch,
                          path |-> UpdateSourcePath(args.source)]]
        ELSE <<>>)
    @@ (IF Truthy(args.build_type) THEN [build_type |-> args.build_type] ELSE <<>>)
    @@ (IF args.cname # Undefined THEN [cname |-> args.cname] ELSE <<>>)

UpdateSuccessBody(data) ==
    [success |-> TRUE, message |-> "GitHub Pages configuration updated successfully",
     url |-> data.html_url, source |-> data.source, build_type |-> data.build_type,
     cname |-> data.cname]

(***************************************************************************)
(* The upstream Git object store. An object's SHA is the object itself     *)
(* (content addressing without collisions); a commit also carries the      *)
(* serial number of its creation, as its timestamps make it unique.        *)
(***************************************************************************)
NoSha == [kind |-> "none"]
Blob(bytes) == [kind |-> "blob", bytes |-> bytes]
Tree(entries) == [kind |-> "tree", entries |-> entries]
Commit(tree, parents, message, serial) ==
    [kind |-> "commit", tree |-> tree, parents |-> parents, message |-> message,
     serial |-> serial]

\* the bytes a blob request stores
Decode(content, encoding) ==
    IF encoding = "base64"
    THEN CASE content = "eQ==" -> "y"
           [] content = "eA==" -> "x"
           [] OTHER -> ""
    ELSE content

\* the trees a branch may start with
BaseTrees ==
    { Tree(("a.txt" :> Blob("old")) @@ ("c.txt" :> Blob("keep"))),
      Tree("index.html" :> Blob("home")) }
InitialCommit(tree) == Commit(tree, <<>>, "initial", 0)

\* upstream "create blob"
UpstreamBlob(params) == Blob(Decode(params.content.v, params.encoding))

\* the last entry of items for path q (0 when there is none)
LastEntry(items, q) ==
    LET hits == {i \in 1..Len(items) : items[i].path = q}
    IN  IF hits = {} THEN 0 ELSE CHOOSE i \in hits : \A j \in hits : j <= i

\* upstream "create tree": the entries laid over the base tree
UpstreamTree(params) ==
    LET base == params.base_tree.entries
        items == params.tree
        paths == DOMAIN base \cup {items[i].path : i \in 1..Len(items)}
    IN  Tree([q \in paths |->
                IF LastEntry(items, q) # 0 THEN items[LastEntry(items, q)].sha
                ELSE base[q]])

\* upstream "create commit"
UpstreamCommit(params, serial) ==
    Commit(params.tree, params.parents, params.message.v, serial)

RECURSIVE IsAncestor(_, _)
\* commit a is commit c or one of its ancestors
IsAncestor(a, c) ==
    \/ a = c
    \/ \E i \in 1..Len(c.parents) : IsAncestor(a, c.parents[i])

\* upstream "update reference": a fast-forward, or any move when forced
UpstreamAccepts(tip, params) ==
    \/ IsAncestor(tip, params.sha)
    \/ "force" \in DOMAIN params /\ params.force

\* the answer of upstream "update reference" to a move it does not accept
NotFastForward ==
    [status |-> 422, message |-> "Update is not a fast forward",
     data |-> "{message: Update is not a fast forward}"]

(***************************************************************************)
(* deployToGithubPages: what it computes between its awaits.               *)
(***************************************************************************)
\* NoFilesProvided testing only !files
NoFilesProvided_OmittedOnly(files) == files.t = "undefined"

\* !files || files.length === 0
NoFilesProvided(files) == files.t = "undefined" \/ Len(files.items) = 0

NoFilesBody == [success |-> FALSE, error |-> "No files provided for deployment"]

\* NoFilesResult without the isError flag
NoFilesResult_NotFlagged == Return(NoFilesBody)

\* the envelope returned for an empty or omitted file list
NoFilesResult == ReturnIsError(NoFilesBody)

HeadsRef(args) == "heads/" \o args.branch.v

GetRefParams(args) == [owner |-> args.owner, repo |-> args.repo, ref |-> HeadsRef(args)]

GetCommitParams(args, sha) ==
    [owner |-> args.owner, repo |-> args.repo, commit_sha |-> sha]

\* file.encoding === "base64" ? "base64" : "utf-8"
BlobEncoding(file) == IF file.encoding = Str("base64") THEN "base64" ELSE "utf-8"

CreateBlobParams(args, file) ==
    [owner |-> args.owner, repo |-> args.repo, content |-> file.content,
     encoding |-> BlobEncoding(file)]

\* CreateBlobCalls that requests every blob a second time
CreateBlobCalls_Retried(args) ==
    LET once == [i \in 1..Len(args.files.items) |->
                    Call("createBlob", CreateBlobParams(args, args.files.items[i]))]
    IN  once \o once

\* the createBlob calls files.map issues, in file order
CreateBlobCalls(args) ==
    [i \in 1..Len(args.files.items) |->
        Call("createBlob", CreateBlobParams(args, args.files.items[i]))]

\* what one callback of files.map resolves to
TreeItem(file, sha) ==
    [path |-> file.path.v, mode |-> "100644", type |-> "blob", sha |-> sha]

\* a promise of files.map
PendingPromise == [state |-> "pending"]
Fulfilled(value) == [state |-> "fulfilled", value |-> value]
Rejected == [state |-> "rejected"]

\* Promise.all resolves: every promise is fulfilled
AllFulfilled(promises) ==
    \A i \in DOMAIN promises : promises[i].state = "fulfilled"

\* TreeItems that lists the values last file first
TreeItems_Reversed(promises) ==
    [i \in DOMAIN promises |-> promises[Len(promises) + 1 - i].value]

\* the array Promise.all resolves to, in the order of the files
TreeItems(promises) == [i \in DOMAIN promises |-> promises[i].value]

\* CreateTreeParams that leaves base_tree out
CreateTreeParams_NoBase(args, items, base) ==
    [owner |-> args.owner, repo |-> args.repo, tree |-> items,
     base_tree |-> Tree(<<>>)]

CreateTreeParams(args, items, base) ==
    [owner |-> args.owner, repo |-> args.repo, tree |-> items, base_tree |-> base]

\* message || "Deploy to GitHub Pages"
CommitMessage(args) == OrElse(args.message, Str("Deploy to GitHub Pages"))

\* CreateCommitParams that names no parent
CreateCommitParams_NoParent(args, tree, latest) ==
    [owner |-> args.owner, repo |-> args.repo, message |-> CommitMessage(args),
     tree |-> tree, parents |-> <<>>]

CreateCommitParams(args, tree, latest) ==
    [owner |-> args.owner, repo |-> args.repo, message |-> CommitMessage(args),
     tree |-> tree, parents |-> <<latest>>]

\* UpdateRefParams that asks for a forced update
UpdateRefParams_Forced(args, sha) ==
    [owner |-> args.owner, repo |-> args.repo, ref |-> HeadsRef(args), sha |-> sha,
     force |-> TRUE]

\* no force: upstream takes the update only as a fast-forward
UpdateRefParams(args, sha) ==
    [owner |-> args.owner, repo |-> args.repo, ref |-> HeadsRef(args), sha |-> sha]

DeploySuccessBody(sha, files) ==
    [success |-> TRUE, message |-> "Files deployed successfully",
     commit_sha |-> sha, files_deployed |-> Len(files.items)]

(***************************************************************************)
(* State. Each process is one tool call (one run of the CallTool handler); *)
(* ref and objects are the upstream repository.                            *)
(***************************************************************************)
Procs == {1, 2}
\* the calls that run under Spec
SpecProcs == {1}

VARIABLES
    pc,               \* where each tool call stands
    req,              \* request.params of each tool call: name and arguments
    calls,            \* the upstream calls each tool call has issued, in order
    result,           \* what each tool call ended with
    caught,           \* the error bound by the handler's catch block, if any
    responses,        \* the upstream answers each tool call received, in arrival order
    latestCommitSha,  \* deploy: refResponse.data.object.sha
    baseTreeSha,      \* deploy: commitResponse.data.tree.sha
    blobPromises,     \* deploy: the promises of files.map, in file order
    treeSha,          \* deploy: treeResponse.data.sha
    newCommitSha,     \* deploy: newCommitResponse.data.sha
    ref,              \* upstream: the commit heads/main points at
    objects           \* upstream: the objects of the repository

deployVars == <<latestCommitSha, baseTreeSha, blobPromises, treeSha, newCommitSha>>
upstreamVars == <<ref, objects>>
vars == <<pc, req, calls, result, caught, responses, latestCommitSha, baseTreeSha, blobPromises,
          treeSha, newCommitSha, ref, objects>>

Init ==
    /\ pc = [p \in Procs |-> "idle"]
    /\ req = [p \in Procs |-> [name |-> "", args |-> NoArgs]]
    /\ calls = [p \in Procs |-> <<>>]
    /\ result = [p \in Procs |-> Pending]
    /\ caught = [p \in Procs |-> NoError]
    /\ responses = [p \in Procs |-> <<>>]
    /\ latestCommitSha = [p \in Procs |-> NoSha]
    /\ baseTreeSha = [p \in Procs |-> NoSha]
    /\ blobPromises = [p \in Procs |-> <<>>]
    /\ treeSha = [p \in Procs |-> NoSha]
    /\ newCommitSha = [p \in Procs |-> NoSha]
    /\ \E t \in BaseTrees :
        /\ ref = InitialCommit(t)
        /\ objects = {InitialCommit(t), t} \cup {t.entries[q] : q \in DOMAIN t.entries}

\* the tool call p ends with r, outside any catch block
Finish(p, r) ==
    /\ result' = [result EXCEPT ![p] = r]
    /\ pc' = [pc EXCEPT ![p] = "done"]
    /\ UNCHANGED caught

\* the catch block of a handler binds e and the tool call p ends with r
Catch(p, e, r) ==
    /\ caught' = [caught EXCEPT ![p] = e]
    /\ result' = [result EXCEPT ![p] = r]
    /\ pc' = [pc EXCEPT ![p] = "done"]

\* the tool call p issues these upstream calls
Issue_(p, cs) == calls' = [calls EXCEPT ![p] = @ \o cs]

\* the answer to call number k of tool call p arrives when p has issued
\* `issued` calls: it succeeded or not, and carries the SHA of the object read
\* or created (NoSha when the call returns none)
Answer(p, k, issued, ok, sha) ==
    responses' = [responses EXCEPT ![p] =
        Append(@, [call |-> k, issued |-> issued, ok |-> ok, sha |-> sha])]

\* a request arrives at an idle process
Receive(p, name, args) ==
    /\ pc[p] = "idle"
    /\ req' = [req EXCEPT ![p] = [name |-> name, args |-> args]]

(***************************************************************************)
(* The CallTool handler, one action per case of its switch.                *)
(***************************************************************************)
EnableGithubPages(p) ==
    \E args \in EnableArgs :
        LET issues == EnableGithubPagesSchema(args) IN
        /\ Receive(p, "enable_github_pages", args)
        /\ IF issues # <<>>
           THEN Finish(p, InvalidArguments(issues)) /\ UNCHANGED <<calls, responses>>
           ELSE /\ Issue_(p, <<Call("createPagesSite", CreatePagesSiteParams(args))>>)
                /\ \/ /\ \E data \in PagesData :
                            Finish(p, Return(EnableSuccessBody(data)))
                      /\ Answer(p, 1, 1, TRUE, NoSha)
                   \/ /\ \E e \in UpstreamErrors :
                            Catch(p, e, ReturnIsError(FailureBody(e)))
                      /\ Answer(p, 1, 1, FALSE, NoSha)
        /\ UNCHANGED <<deployVars, upstreamVars>>

GetGithubPagesInfo(p) ==
    \E args \in OwnerRepoArgs :
        LET issues == GetGithubPagesInfoSchema(args) IN
        /\ Receive(p, "get_github_pages_info", args)
        /\ IF issues # <<>>
           THEN Finish(p, InvalidArguments(issues)) /\ UNCHANGED <<calls, responses>>
           ELSE /\ Issue_(p, <<Call("getPages",
                                    [owner |-> args.owner, repo |-> args.repo])>>)
                /\ \/ /\ \E data \in PagesData :
                            Finish(p, Return(GetInfoSuccessBody(data)))
                      /\ Answer(p, 1, 1, TRUE, NoSha)
                   \/ /\ \E e \in UpstreamErrors : Catch(p, e, GetInfoFailure(e))
                      /\ Answer(p, 1, 1, FALSE, NoSha)
        /\ UNCHANGED <<deployVars, upstreamVars>>

DisableGithubPages(p) ==
    \E args \in OwnerRepoArgs :
        LET issues == DisableGithubPagesSchema(args) IN
        /\ Receive(p, "disable_github_pages", args)
        /\ IF issues # <<>>
           THEN Finish(p, InvalidArguments(issues)) /\ UNCHANGED <<calls, responses>>
           ELSE /\ Issue_(p, <<Call("deletePagesSite",
                                    [owner |-> args.owner, repo |-> args.repo])>>)
                /\ \/ /\ Finish(p, Return(DisableSuccessBody))
                      /\ Answer(p, 1, 1, TRUE, NoSha)
                   \/ /\ \E e \in UpstreamErrors :
                            Catch(p, e, ReturnIsError(FailureBody(e)))
                      /\ Answer(p, 1, 1, FALSE, NoSha)
        /\ UNCHANGED <<deployVars, upstreamVars>>

UpdateGithubPagesConfig(p) ==
    \E args \in UpdateArgs :
        LET issues == UpdateGithubPagesConfigSchema(args) IN
        /\ Receive(p, "update_github_pages_config", args)
        /\ IF issues # <<>>
           THEN Finish(p, InvalidArguments(issues)) /\ UNCHANGED <<calls, responses>>
           ELSE IF UpdateInvalidPath(args)
           THEN /\ Catch(p, InvalidPathError, ReturnIsError(FailureBody(InvalidPathError)))
                /\ UNCHANGED <<calls, responses>>
           ELSE /\ Issue_(p, <<Call("updateInformationAboutPagesSite",
                                    UpdateParams(args))>>)
                /\ \/ /\ \E data \in PagesData :
                            Finish(p, Return(UpdateSuccessBody(data)))
                      /\ Answer(p, 1, 1, TRUE, NoSha)
                   \/ /\ \E e \in UpstreamErrors :
                            Catch(p, e, ReturnIsError(FailureBody(e)))
                      /\ Answer(p, 1, 1, FALSE, NoSha)
        /\ UNCHANGED <<deployVars, upstreamVars>>

\* default: throw new Error(`Unknown tool: ${name}`)
UnknownTool(p) ==
    \E name \in UnknownNames, args \in OwnerRepoArgs :
        /\ Receive(p, name, args)
        /\ Finish(p, UnknownToolError(name))
        /\ UNCHANGED <<calls, responses, deployVars, upstreamVars>>

(***************************************************************************)
(* deployToGithubPages, one action per await.                              *)
(***************************************************************************)
\* DeployFails whose envelope carries no isError
DeployFails_NotFlagged(p) ==
    \E e \in UpstreamErrors : Catch(p, e, Return(FailureBody(e)))

\* an upstream call of the deploy fails: the catch block
DeployFails(p) ==
    \E e \in UpstreamErrors : Catch(p, e, ReturnIsError(FailureBody(e)))

\* parse, the empty-list check, and the getRef request, for arguments drawn
\* from argSet
DeployCall(p, argSet) ==
    \E args \in argSet :
        LET issues == DeployToGithubPagesSchema(args) IN
        /\ Receive(p, "deploy_to_github_pages", args)
        /\ IF issues # <<>>
           THEN Finish(p, InvalidArguments(issues)) /\ UNCHANGED calls
           ELSE IF NoFilesProvided(args.files)
           THEN Finish(p, NoFilesResult) /\ UNCHANGED calls
           ELSE /\ Issue_(p, <<Call("getRef", GetRefParams(args))>>)
                /\ pc' = [pc EXCEPT ![p] = "getRef"]
                /\ UNCHANGED <<result, caught>>
        /\ UNCHANGED <<responses, deployVars, upstreamVars>>

DeployToGithubPages(p) == DeployCall(p, DeployArgs)

\* getRef answers; on success getCommit is requested
GetRefReturns(p) ==
    /\ pc[p] = "getRef"
    /\ \/ /\ Answer(p, 1, Len(calls[p]), TRUE, ref)
          /\ latestCommitSha' = [latestCommitSha EXCEPT ![p] = ref]
          /\ Issue_(p, <<Call("getCommit", GetCommitParams(req[p].args, ref))>>)
          /\ pc' = [pc EXCEPT ![p] = "getCommit"]
          /\ UNCHANGED <<result, caught>>
       \/ /\ Answer(p, 1, Len(calls[p]), FALSE, NoSha)
          /\ DeployFails(p)
          /\ UNCHANGED <<calls, latestCommitSha>>
    /\ UNCHANGED <<req, baseTreeSha, blobPromises, treeSha, newCommitSha, upstreamVars>>

\* getCommit answers; on success files.map requests every blob
GetCommitReturns(p) ==
    /\ pc[p] = "getCommit"
    /\ \/ /\ Answer(p, 2, Len(calls[p]), TRUE, calls[p][2].params.commit_sha.tree)
          /\ baseTreeSha' = [baseTreeSha EXCEPT ![p] =
                calls[p][2].params.commit_sha.tree]
          /\ Issue_(p, CreateBlobCalls(req[p].args))
          /\ blobPromises' = [blobPromises EXCEPT ![p] =
                [i \in 1..Len(req[p].args.files.items) |-> PendingPromise]]
          /\ pc' = [pc EXCEPT ![p] = "createBlob"]
          /\ UNCHANGED <<result, caught>>
       \/ /\ Answer(p, 2, Len(calls[p]), FALSE, NoSha)
          /\ DeployFails(p)
          /\ UNCHANGED <<calls, baseTreeSha, blobPromises>>
    /\ UNCHANGED <<req, latestCommitSha, treeSha, newCommitSha, upstreamVars>>

\* one createBlob answers, in any order; when the last one has, Promise.all
\* resolves and createTree is requested; the first failure rejects Promise.all
CreateBlobReturns(p, i) ==
    /\ pc[p] \in {"createBlob", "done"}
    /\ i \in DOMAIN blobPromises[p]
    /\ blobPromises[p][i].state = "pending"
    /\ LET args == req[p].args
           file == args.files.items[i]
           sha == UpstreamBlob(calls[p][2 + i].params)
           settled == [blobPromises[p] EXCEPT ![i] = Fulfilled(TreeItem(file, sha))]
       IN  \/ /\ Answer(p, 2 + i, Len(calls[p]), TRUE, sha)
              /\ objects' = objects \cup {sha}
              /\ blobPromises' = [blobPromises EXCEPT ![p] = settled]
              /\ IF pc[p] = "createBlob" /\ AllFulfilled(settled)
                 THEN /\ Issue_(p, <<Call("createTree",
                            CreateTreeParams(args, TreeItems(settled), baseTreeSha[p]))>>)
                      /\ pc' = [pc EXCEPT ![p] = "createTree"]
                 ELSE UNCHANGED <<calls, pc>>
              /\ UNCHANGED <<result, caught>>
           \/ /\ Answer(p, 2 + i, Len(calls[p]), FALSE, NoSha)
              /\ blobPromises' = [blobPromises EXCEPT ![p][i] = Rejected]
              /\ IF pc[p] = "createBlob"
                 THEN DeployFails(p)
                 ELSE UNCHANGED <<pc, result, caught>>
              /\ UNCHANGED <<calls, objects>>
    /\ UNCHANGED <<req, latestCommitSha, baseTreeSha, treeSha, newCommitSha, ref>>

\* createTree answers; on success createCommit is requested
CreateTreeReturns(p) ==
    /\ pc[p] = "createTree"
    /\ LET args == req[p].args
           sha == UpstreamTree(calls[p][Len(calls[p])].params)
       IN  \/ /\ Answer(p, Len(calls[p]), Len(calls[p]), TRUE, sha)
              /\ objects' = objects \cup {sha}
              /\ treeSha' = [treeSha EXCEPT ![p] = sha]
              /\ Issue_(p, <<Call("createCommit",
                                  CreateCommitParams(args, sha, latestCommitSha[p]))>>)
              /\ pc' = [pc EXCEPT ![p] = "createCommit"]
              /\ UNCHANGED <<result, caught>>
           \/ /\ Answer(p, Len(calls[p]), Len(calls[p]), FALSE, NoSha)
              /\ DeployFails(p)
              /\ UNCHANGED <<calls, treeSha, objects>>
    /\ UNCHANGED <<req, latestCommitSha, baseTreeSha, blobPromises, newCommitSha, ref>>

\* createCommit answers; on success updateRef is requested
CreateCommitReturns(p) ==
    /\ pc[p] = "createCommit"
    /\ LET args == req[p].args
           serial == Cardinality({o \in objects : o.kind = "commit"})
           sha == UpstreamCommit(calls[p][Len(calls[p])].params, serial)
       IN  \/ /\ Answer(p, Len(calls[p]), Len(calls[p]), TRUE, sha)
              /\ objects' = objects \cup {sha}
              /\ newCommitSha' = [newCommitSha EXCEPT ![p] = sha]
              /\ Issue_(p, <<Call("updateRef", UpdateRefParams(args, sha))>>)
              /\ pc' = [pc EXCEPT ![p] = "updateRef"]
              /\ UNCHANGED <<result, caught>>
           \/ /\ Answer(p, Len(calls[p]), Len(calls[p]), FALSE, NoSha)
              /\ DeployFails(p)
              /\ UNCHANGED <<calls, newCommitSha, objects>>
    /\ UNCHANGED <<req, latestCommitSha, baseTreeSha, blobPromises, treeSha, ref>>

\* updateRef answers: the branch moves if upstream accepts the update
UpdateRefReturns(p) ==
    /\ pc[p] = "updateRef"
    /\ LET params == calls[p][Len(calls[p])].params
       IN  \/ /\ UpstreamAccepts(ref, params)
              /\ Answer(p, Len(calls[p]), Len(calls[p]), TRUE, params.sha)
              /\ ref' = params.sha
              /\ Finish(p, Return(DeploySuccessBody(newCommitSha[p], req[p].args.files)))
           \/ /\ ~UpstreamAccepts(ref, params)
              /\ Answer(p, Len(calls[p]), Len(calls[p]), FALSE, NoSha)
              /\ Catch(p, NotFastForward, ReturnIsError(FailureBody(NotFastForward)))
              /\ UNCHANGED ref
           \/ /\ Answer(p, Len(calls[p]), Len(calls[p]), FALSE, NoSha)
              /\ DeployFails(p)
              /\ UNCHANGED ref
    /\ UNCHANGED <<req, calls, deployVars, objects>>

Next ==
    \E p \in SpecProcs :
        \/ EnableGithubPages(p)
        \/ GetGithubPagesInfo(p)
        \/ DisableGithubPages(p)
        \/ UpdateGithubPagesConfig(p)
        \/ UnknownTool(p)
        \/ DeployToGithubPages(p)
        \/ GetRefReturns(p)
        \/ GetCommitReturns(p)
        \/ \E i \in 1..(MaxFiles + 1) : CreateBlobReturns(p, i)
        \/ CreateTreeReturns(p)
        \/ CreateCommitReturns(p)
        \/ UpdateRefReturns(p)

Spec == Init /\ [][Next]_vars

(***************************************************************************)
(* Two deploys at once.  The server awaits every upstream call, so a       *)
(* second deploy_to_github_pages request can be taken up while the first   *)
(* waits for an answer: the two runs share nothing but the upstream        *)
(* repository.                                                             *)
(***************************************************************************)
\* the deploy requests of the racing runs: valid, of the same branch, with the
\* default message, and of files of different paths
RaceArgs ==
    {a \in DeployArgs :
        /\ DeployToGithubPagesSchema(a) = <<>>
        /\ ~NoFilesProvided(a.files)
        /\ a.branch = Str("main") /\ a.message = Undefined
        /\ Len(a.files.items) <= MaxFiles
        /\ \A i, j \in 1..Len(a.files.items) :
                a.files.items[i].path = a.files.items[j].path => i = j}

RaceNext ==
    \E p \in Procs :
        \/ DeployCall(p, RaceArgs)
        \/ GetRefReturns(p)
        \/ GetCommitReturns(p)
        \/ \E i \in 1..(MaxFiles + 1) : CreateBlobReturns(p, i)
        \/ CreateTreeReturns(p)
        \/ CreateCommitReturns(p)
        \/ UpdateRefReturns(p)

SpecRace == Init /\ [][RaceNext]_vars

(***************************************************************************)
(* Vocabulary of the properties.                                           *)
(***************************************************************************)
Done(p) == pc[p] = "done"
Name(p) == req[p].name
Args(p) == req[p].args

\* sub occurs in the string s
Contains(s, sub) ==
    \E k \in 1..(Len(s) - Len(sub) + 1) : SubSeq(s, k, k + Len(sub) - 1) = sub

StartsWith(s, prefix) ==
    Len(s) >= Len(prefix) /\ SubSeq(s, 1, Len(prefix)) = prefix

\* the message lists a violation of the field at the dotted path q
NamesPath(message, q) == Contains(message, " " \o q \o ": ")

\* a required string is missing or not a string
BadRequired(val) == val.t # "string"
\* an optional string is present and not a string
BadOptional(val) == val.t \notin {"undefined", "string"}
\* an optional enumerated field is present and outside its set
BadEnum(val, options) ==
    val.t # "undefined" /\ (val.t # "string" \/ val.v \notin options)

\* {q} when cond holds
When(cond, q) == IF cond THEN {q} ELSE {}

\* the offending paths of a source object
SourcePaths(source, required) ==
    IF source.t = "undefined" THEN (IF required THEN {"source"} ELSE {})
    ELSE IF source.t # "object" THEN {"source"}
    ELSE When(BadRequired(source.branch), "source.branch")
         \cup When(BadEnum(source.path, {"/", "/docs"}), "source.path")

\* the offending paths of a files array
FilesPaths(files) ==
    IF files.t = "undefined" THEN {}
    ELSE IF files.t # "array" THEN {"files"}
    ELSE UNION {
        LET f == files.items[k]
            at == "files." \o ToString(k - 1) \o "."
        IN  When(BadRequired(f.path), at \o "path")
            \cup When(BadRequired(f.content), at \o "content")
            \cup When(BadEnum(f.encoding, {"utf-8", "base64"}), at \o "encoding")
        : k \in 1..Len(files.items)}

\* the paths of the fields of a payload that break the tool's declared input
\* (required fields, types and enumerations of each tool); a field whose
\* enclosing object is missing counts under the path of that object, the root
\* object under the empty path
OffendingPaths(name, args) ==
    IF args.t # "object" THEN {""} ELSE
    When(BadRequired(args.owner), "owner")
    \cup When(BadRequired(args.repo), "repo")
    \cup (IF name = "enable_github_pages"
          THEN SourcePaths(args.source, TRUE)
               \cup When(BadEnum(args.build_type, {"legacy", "workflow"}), "build_type")
          ELSE {})
    \cup (IF name = "update_github_pages_config"
          THEN SourcePaths(args.source, FALSE)
               \cup When(BadEnum(args.build_type, {"legacy", "workflow"}), "build_type")
               \cup When(BadOptional(args.cname), "cname")
          ELSE {})
    \cup (IF name = "deploy_to_github_pages"
          THEN When(BadRequired(args.branch), "branch")
               \cup When(BadOptional(args.message), "message")
               \cup FilesPaths(args.files)
          ELSE {})

ValidPayload(p) == OffendingPaths(Name(p), Args(p)) = {}

\* the body of a returned result says success
Succeeded(p) ==
    Done(p) /\ result[p].kind = "return" /\ result[p].body.success

(***************************************************************************)
(* C1: for each of the five tools, a payload that misses a required field  *)
(* or otherwise breaks the schema ends in an error whose message names the *)
(* path of every offending field, and the call issues no upstream call.    *)
(***************************************************************************)
C1_InvalidPayloadRejected ==
    \A p \in Procs :
        (Name(p) \in ToolNames /\ ~ValidPayload(p)) =>
            /\ Done(p)
            /\ result[p].kind = "throw"
            /\ \A q \in OffendingPaths(Name(p), Args(p)) :
                    NamesPath(result[p].message, q)
            /\ calls[p] = <<>>

\* enable with a source object that has no branch was rejected
C1_Witness ==
    \E p \in Procs :
        /\ Done(p)
        /\ Name(p) = "enable_github_pages"
        /\ Args(p).source.t = "object"
        /\ Args(p).source.branch = Undefined
        /\ Args(p).owner = Str("octo")
        /\ result[p].kind = "throw"
        /\ NamesPath(result[p].message, "source.branch")

(***************************************************************************)
(* C2: a deploy of n >= 1 files whose upstream calls all succeed leaves    *)
(* heads/<branch> at the new commit; that commit's only parent is the      *)
(* former tip C0; its tree has a blob for every supplied path and every    *)
(* other path of C0's tree unchanged; the payload carries the commit's SHA *)
(* and files_deployed = n.                                                 *)
(***************************************************************************)
\* the commit the branch started at
C0 == CHOOSE c \in objects : c.kind = "commit" /\ c.parents = <<>>

\* the blobs upstream stores for the files supplied under path q
SuppliedBlobs(files, q) ==
    {Blob(Decode(files.items[k].content.v,
                 IF files.items[k].encoding = Str("base64") THEN "base64" ELSE "utf-8")) :
        k \in {j \in 1..Len(files.items) : files.items[j].path.v = q}}

C2_DeployRoundTrip ==
    \A p \in Procs :
        (Name(p) = "deploy_to_github_pages" /\ Succeeded(p)) =>
            LET files == Args(p).files
                supplied == {files.items[k].path.v : k \in 1..Len(files.items)}
                entries == ref.tree.entries
            IN  /\ ref = newCommitSha[p]
                /\ ref \in objects /\ ref.tree \in objects
                /\ ref # C0
                /\ ref.parents = <<C0>>
                /\ \A q \in supplied :
                        /\ q \in DOMAIN entries
                        /\ entries[q] \in SuppliedBlobs(files, q)
                        /\ entries[q] \in objects
                /\ \A q \in DOMAIN C0.tree.entries \ supplied :
                        q \in DOMAIN entries /\ entries[q] = C0.tree.entries[q]
                /\ result[p].body.commit_sha = ref
                /\ result[p].body.files_deployed = Len(files.items)

\* a deploy of a.txt and b.txt succeeded over a tree holding a.txt and c.txt
C2_Witness ==
    \E p \in Procs :
        /\ Name(p) = "deploy_to_github_pages" /\ Succeeded(p)
        /\ Len(Args(p).files.items) = 2
        /\ Args(p).files.items[1].path = Str("a.txt")
        /\ Args(p).files.items[2].path = Str("b.txt")
        /\ "c.txt" \in DOMAIN C0.tree.entries
        /\ ref.tree.entries["c.txt"] = Blob("keep")
        /\ ref.tree.entries["b.txt"] = Blob("y")

(***************************************************************************)
(* C3: deploy with an empty or omitted files list returns the body         *)
(* {success: false, error: "No files provided for deployment"} and issues  *)
(* no upstream call.                                                       *)
(***************************************************************************)
\* an otherwise valid deploy request whose files list is empty or omitted
EmptyDeploy(p) ==
    /\ Name(p) = "deploy_to_github_pages"
    /\ ValidPayload(p)
    /\ (Args(p).files.t = "undefined" \/ Args(p).files.items = <<>>)

C3_EmptyFilesNoUpstream ==
    \A p \in Procs :
        EmptyDeploy(p) =>
            /\ Done(p)
            /\ result[p].kind = "return"
            /\ result[p].body =
                 [success |-> FALSE, error |-> "No files provided for deployment"]
            /\ calls[p] = <<>>

\* a deploy with files: [] has ended
C3_Witness ==
    \E p \in Procs :
        /\ EmptyDeploy(p) /\ Done(p)
        /\ Args(p).files.t = "array"
        /\ result[p].kind = "return" /\ ~result[p].body.success

(***************************************************************************)
(* C4 as stated: the empty-file-list failure of deploy is returned with    *)
(* success: false in its body and without the isError flag.                *)
(***************************************************************************)
C4_Original ==
    \A p \in Procs :
        (EmptyDeploy(p) /\ Done(p)) =>
            /\ result[p].kind = "return"
            /\ ~result[p].body.success
            /\ result[p].isError = "absent"

(***************************************************************************)
(* C4 amended: the empty-file-list failure of deploy is returned, not      *)
(* thrown, with success: false in its body and flagged isError: true, the  *)
(* flag upstream failures carry.                                           *)
(***************************************************************************)
C4_EmptyFilesFlagged ==
    \A p \in Procs :
        (EmptyDeploy(p) /\ Done(p)) =>
            /\ result[p].kind = "return"
            /\ ~result[p].body.success
            /\ result[p].isError = "true"
            /\ caught[p] = NoError

\* a deploy with no files key has ended
C4_Witness ==
    \E p \in Procs :
        /\ EmptyDeploy(p) /\ Done(p)
        /\ Args(p).files.t = "undefined"
        /\ result[p].kind = "return"

(***************************************************************************)
(* C5: get_github_pages_info issues one get-pages call; if it fails with   *)
(* status 404 the result is {success: false, error: "GitHub Pages is not   *)
(* enabled for this repository"} without isError; if it fails otherwise    *)
(* the result has success: false, the upstream message and isError: true;  *)
(* if it succeeds the result has success: true and no isError.             *)
(***************************************************************************)
C5_GetInfoAbsenceVsFailure ==
    \A p \in Procs :
        (Name(p) = "get_github_pages_info" /\ ValidPayload(p)) =>
            /\ Done(p)
            /\ result[p].kind = "return"
            /\ Len(calls[p]) = 1 /\ calls[p][1].op = "getPages"
            /\ IF caught[p] = NoError
               THEN result[p].body.success /\ result[p].isError = "absent"
               ELSE IF "status" \in DOMAIN caught[p] /\ caught[p].status = 404
               THEN /\ result[p].body =
                         [success |-> FALSE,
                          error |-> "GitHub Pages is not enabled for this repository"]
                    /\ result[p].isError = "absent"
               ELSE /\ ~result[p].body.success
                    /\ result[p].body.error = caught[p].message
                    /\ result[p].isError = "true"

\* get_info has ended on an upstream 404
C5_Witness ==
    \E p \in Procs :
        /\ Name(p) = "get_github_pages_info" /\ Done(p)
        /\ "status" \in DOMAIN caught[p] /\ caught[p].status = 404
        /\ result[p].isError = "absent"

(***************************************************************************)
(* C6 as stated: update_github_pages_config sends upstream a request       *)
(* holding, among source, build_type and cname, exactly the keys the       *)
(* caller supplied; a cname supplied as an empty string or as null reaches *)
(* the upstream as that value, and an omitted cname sends no cname key.    *)
(***************************************************************************)
\* an update request whose fields are all of the documented kinds, cname
\* being absent, null or a string
UpdateRequest(p) ==
    /\ Name(p) = "update_github_pages_config"
    /\ OffendingPaths(Name(p), Args(p)) \subseteq {"cname"}
    /\ Args(p).cname.t \in {"undefined", "null", "string"}

C6_Original ==
    \A p \in Procs :
        (UpdateRequest(p) /\ Done(p)) =>
            /\ Len(calls[p]) = 1
            /\ LET params == calls[p][1].params
               IN  /\ "source" \in DOMAIN params <=> Args(p).source.t # "undefined"
                   /\ "build_type" \in DOMAIN params <=> Args(p).build_type # Undefined
                   /\ "cname" \in DOMAIN params <=> Args(p).cname # Undefined
                   /\ Args(p).cname # Undefined => params.cname = Args(p).cname

(***************************************************************************)
(* C7: a source.path outside {"/", "/docs"} is rejected by validation for  *)
(* enable_github_pages and, with the same violation text, for              *)
(* update_github_pages_config; neither issues an upstream call.            *)
(***************************************************************************)
\* enable or update with a source whose path is a string outside the set
BadPathRequest(p) ==
    /\ Name(p) \in {"enable_github_pages", "update_github_pages_config"}
    /\ Args(p).source.t = "object"
    /\ Args(p).source.path.t = "string"
    /\ Args(p).source.path.v \notin {"/", "/docs"}

C7_BadPathRejected ==
    \A p \in Procs :
        BadPathRequest(p) =>
            /\ Done(p)
            /\ result[p].kind = "throw"
            /\ StartsWith(result[p].message, "Invalid arguments: ")
            /\ Contains(result[p].message,
                        " source.path: Invalid enum value. Expected '/' | '/docs', received '"
                        \o Args(p).source.path.v \o "'")
            /\ caught[p] = NoError
            /\ calls[p] = <<>>

\* update with path "/site" and nothing else wrong was rejected
C7_Witness ==
    \E p \in Procs :
        /\ BadPathRequest(p) /\ Done(p)
        /\ Name(p) = "update_github_pages_config"
        /\ Args(p).source.path = Str("/site")
        /\ OffendingPaths(Name(p), Args(p)) = {"source.path"}
        /\ result[p].kind = "throw"

(***************************************************************************)
(* C8: for every valid input enable_github_pages sends one create-pages-   *)
(* site request with source.branch as given, source.path as supplied or    *)
(* "/" when omitted, build_type as supplied or "legacy" when omitted.      *)
(***************************************************************************)
C8_EnableDefaults ==
    \A p \in Procs :
        (Name(p) = "enable_github_pages" /\ ValidPayload(p)) =>
            /\ Done(p)
            /\ Len(calls[p]) = 1
            /\ calls[p][1].op = "createPagesSite"
            /\ LET params == calls[p][1].params
                   a == Args(p)
               IN  /\ params.source.branch = a.source.branch
                   /\ params.source.path =
                        (IF a.source.path = Undefined THEN Str("/") ELSE a.source.path)
                   /\ params.build_type =
                        (IF a.build_type = Undefined THEN Str("legacy") ELSE a.build_type)

\* enable with "/docs" and "workflow" sent them unchanged
C8_Witness ==
    \E p \in Procs :
        /\ Name(p) = "enable_github_pages" /\ ValidPayload(p) /\ Done(p)
        /\ Args(p).source.path = Str("/docs")
        /\ Args(p).build_type = Str("workflow")
        /\ calls[p][1].params.source.path = Str("/docs")

(***************************************************************************)
(* C9: with a valid payload enable, get_info, disable and update each      *)
(* issue exactly one upstream call; deploy with n >= 1 files issues, in    *)
(* this order and never more, one reference read, one commit read, n blob  *)
(* creations, one tree creation, one commit creation and one reference     *)
(* update: at most n + 5 calls, and exactly n + 5 when all succeed.        *)
(***************************************************************************)
SingleCallOp(name) ==
    CASE name = "enable_github_pages" -> "createPagesSite"
      [] name = "get_github_pages_info" -> "getPages"
      [] name = "disable_github_pages" -> "deletePagesSite"
      [] name = "update_github_pages_config" -> "updateInformationAboutPagesSite"

\* the documented calls of a deploy of n files
DeployOps(n) ==
    <<"getRef", "getCommit">> \o [k \in 1..n |-> "createBlob"]
    \o <<"createTree", "createCommit", "updateRef">>

IsPrefix(a, b) == Len(a) <= Len(b) /\ a = SubSeq(b, 1, Len(a))

C9_UpstreamCallCount ==
    \A p \in Procs :
        (Name(p) \in ToolNames /\ ValidPayload(p)) =>
            LET ops == [k \in 1..Len(calls[p]) |-> calls[p][k].op]
                n == Len(Args(p).files.items)
            IN  IF Name(p) # "deploy_to_github_pages"
                THEN Done(p) /\ ops = <<SingleCallOp(Name(p))>>
                ELSE n >= 1 =>
                        /\ Len(ops) <= n + 5
                        /\ IsPrefix(ops, DeployOps(n))
                        /\ Succeeded(p) => Len(ops) = n + 5

\* a deploy of two files succeeded after seven calls
C9_Witness ==
    \E p \in Procs :
        /\ Name(p) = "deploy_to_github_pages" /\ Succeeded(p)
        /\ Len(Args(p).files.items) = 2
        /\ Len(calls[p]) = 7

(***************************************************************************)
(* C10 as stated: for a known tool name the dispatcher always returns an   *)
(* envelope and never raises, a validation failure included; an upstream   *)
(* failure is returned with success: false and isError: true; only an      *)
(* unknown name raises, with "Unknown tool: <name>" and no upstream call.  *)
(***************************************************************************)
C10_Original ==
    \A p \in Procs :
        Done(p) =>
            IF Name(p) \in ToolNames
            THEN /\ result[p].kind = "return"
                 /\ caught[p] # NoError =>
                        ~result[p].body.success /\ result[p].isError = "true"
            ELSE /\ result[p] = Throw("Unknown tool: " \o Name(p))
                 /\ calls[p] = <<>>

(***************************************************************************)
(* C10 amended: for a known tool name the dispatcher returns an envelope   *)
(* unless the arguments fail validation; then it raises an Error whose     *)
(* message is "Invalid arguments: " followed by every field violation, and *)
(* no upstream call is made. A failure caught inside a handler is returned *)
(* with success: false, and with isError: true unless it is get_info's     *)
(* not-found answer. An unknown name raises "Unknown tool: <name>" with no *)
(* handler run and no upstream call.                                       *)
(***************************************************************************)
C10_RaisesOnlyOutsideHandlers ==
    \A p \in Procs :
        Done(p) =>
            CASE Name(p) \notin ToolNames ->
                    /\ result[p] = Throw("Unknown tool: " \o Name(p))
                    /\ caught[p] = NoError
                    /\ calls[p] = <<>>
              [] Name(p) \in ToolNames /\ ~ValidPayload(p) ->
                    /\ result[p].kind = "throw"
                    /\ StartsWith(result[p].message, "Invalid arguments: ")
                    /\ \A q \in OffendingPaths(Name(p), Args(p)) :
                            NamesPath(result[p].message, q)
                    /\ caught[p] = NoError
                    /\ calls[p] = <<>>
              [] OTHER ->
                    /\ result[p].kind = "return"
                    /\ caught[p] # NoError =>
                        /\ ~result[p].body.success
                        /\ \/ result[p].isError = "true"
                           \/ /\ Name(p) = "get_github_pages_info"
                              /\ "status" \in DOMAIN caught[p]
                              /\ caught[p].status = 404

\* a deploy request with three violations was raised as one Error
C10_Witness ==
    \E p \in Procs :
        /\ Done(p)
        /\ Name(p) = "deploy_to_github_pages"
        /\ Cardinality(OffendingPaths(Name(p), Args(p))) = 3
        /\ result[p].kind = "throw"
        /\ NamesPath(result[p].message, "files.0.content")

(***************************************************************************)
(* The answers a tool call has received.                                   *)
(***************************************************************************)
\* call number k of p has been answered
Answered(p, k) == \E j \in DOMAIN responses[p] : responses[p][j].call = k

\* the answer to call number k of p
ResponseTo(p, k) ==
    responses[p][CHOOSE j \in DOMAIN responses[p] : responses[p][j].call = k]

\* call number k of p had returned successfully when p issued call number m
ReturnedBefore(p, k, m) ==
    Answered(p, k) /\ ResponseTo(p, k).ok /\ ResponseTo(p, k).issued < m

\* the calls of p that are awaiting their answer
InFlight(p) == {k \in 1..Len(calls[p]) : ~Answered(p, k)}

\* the numbers of the createBlob calls of p
BlobCalls(p) == {k \in 1..Len(calls[p]) : calls[p][k].op = "createBlob"}

(***************************************************************************)
(* C11: within one deploy the upstream steps are strictly ordered.  The    *)
(* commit read is issued only after the reference read returned, and asks  *)
(* for the SHA it returned; no blob is created before the commit read      *)
(* returned; the tree is created only after every blob creation returned,  *)
(* on the base tree the commit read returned; the commit is created only   *)
(* after the tree creation returned, with that tree and the tip of the     *)
(* reference read as its sole parent; the reference is updated only after  *)
(* the commit creation returned, to exactly the SHA it returned.  Only     *)
(* blob creations are in flight together.                                  *)
(***************************************************************************)
C11_StepsOrdered ==
    \A p \in Procs :
        Name(p) = "deploy_to_github_pages" =>
            /\ \A m \in 1..Len(calls[p]) :
                    LET c == calls[p][m] IN
                    /\ c.op = "getRef" => m = 1
                    /\ c.op = "getCommit" =>
                            /\ calls[p][1].op = "getRef" /\ ReturnedBefore(p, 1, m)
                            /\ c.params.commit_sha = ResponseTo(p, 1).sha
                    /\ c.op = "createBlob" =>
                            calls[p][2].op = "getCommit" /\ ReturnedBefore(p, 2, m)
                    /\ c.op = "createTree" =>
                            /\ BlobCalls(p) = 3..(Len(Args(p).files.items) + 2)
                            /\ \A k \in BlobCalls(p) : ReturnedBefore(p, k, m)
                            /\ c.params.base_tree = ResponseTo(p, 2).sha
                    /\ c.op = "createCommit" =>
                            /\ calls[p][m - 1].op = "createTree"
                            /\ ReturnedBefore(p, m - 1, m)
                            /\ c.params.tree = ResponseTo(p, m - 1).sha
                            /\ c.params.parents = <<ResponseTo(p, 1).sha>>
                    /\ c.op = "updateRef" =>
                            /\ calls[p][m - 1].op = "createCommit"
                            /\ ReturnedBefore(p, m - 1, m)
                            /\ c.params.sha = ResponseTo(p, m - 1).sha
            /\ \A k, l \in InFlight(p) :
                    k # l => calls[p][k].op = "createBlob" /\ calls[p][l].op = "createBlob"

\* a deploy of two files went through all seven steps, each answered, after
\* its two blob creations had been in flight together
C11_Witness ==
    \E p \in Procs :
        /\ Name(p) = "deploy_to_github_pages"
        /\ Len(Args(p).files.items) = 2
        /\ Len(calls[p]) = 7 /\ Len(responses[p]) = 7
        /\ \A j \in 1..7 : responses[p][j].ok
        /\ calls[p][7].op = "updateRef"
(***************************************************************************)
(* C12: whatever order the concurrent blob creations complete in, the      *)
(* entry list passed to tree creation has exactly one entry per supplied   *)
(* file, in the order of the files; entry i pairs the path of file i with  *)
(* the blob SHA returned for file i's own content, with mode "100644" and  *)
(* type "blob".                                                            *)
(***************************************************************************)
C12_TreeEntriesInFileOrder ==
    \A p \in Procs : \A m \in 1..Len(calls[p]) :
        (Name(p) = "deploy_to_github_pages" /\ calls[p][m].op = "createTree") =>
            LET items == Args(p).files.items
                entries == calls[p][m].params.tree
            IN  /\ Len(entries) = Len(items)
                /\ \A i \in 1..Len(items) :
                        /\ calls[p][2 + i].op = "createBlob"
                        /\ calls[p][2 + i].params.content = items[i].content
                        /\ calls[p][2 + i].params.encoding = BlobEncoding(items[i])
                        /\ Answered(p, 2 + i)
                        /\ entries[i] = [path |-> items[i].path.v, mode |-> "100644",
                                         type |-> "blob", sha |-> ResponseTo(p, 2 + i).sha]
                        /\ entries[i].sha =
                                Blob(Decode(items[i].content.v, BlobEncoding(items[i])))

\* the tree of a deploy of a.txt and b.txt was requested after the blob of
\* b.txt had been answered before the blob of a.txt
C12_Witness ==
    \E p \in Procs :
        /\ Name(p) = "deploy_to_github_pages"
        /\ Len(Args(p).files.items) = 2
        /\ Args(p).files.items[1].path = Str("a.txt")
        /\ Args(p).files.items[2].path = Str("b.txt")
        /\ Len(calls[p]) >= 5 /\ calls[p][5].op = "createTree"
        /\ \E j, k \in DOMAIN responses[p] :
                j < k /\ responses[p][j].call = 4 /\ responses[p][k].call = 3
        /\ calls[p][5].params.tree[1].sha # calls[p][5].params.tree[2].sha
(***************************************************************************)
(* C13: deploy never retries and never moves the branch after a failure.   *)
(* If any upstream step fails (the reference read, the commit read, a blob *)
(* creation, the tree creation, the commit creation, or the reference      *)
(* update itself, its rejection because the branch has moved included), no *)
(* later step is issued, no step is issued again, the branch is not moved  *)
(* by this invocation, and the invocation ends with the upstream-failure   *)
(* envelope (success: false, isError: true); the objects it created stay   *)
(* upstream.  A step that fails is one upstream did not carry out.         *)
(***************************************************************************)
\* some call of p was answered with a failure
HasFailed(p) == \E j \in DOMAIN responses[p] : ~responses[p][j].ok

\* the first failure p was answered with
FirstFailure(p) ==
    responses[p][CHOOSE j \in DOMAIN responses[p] :
        /\ ~responses[p][j].ok
        /\ \A i \in 1..(j - 1) : responses[p][i].ok]

\* the objects the calls of p created
CreatedBy(p) ==
    {responses[p][j].sha : j \in {i \in DOMAIN responses[p] :
        /\ responses[p][i].ok
        /\ calls[p][responses[p][i].call].op \in
                {"createBlob", "createTree", "createCommit"}}}

C13_NoRetryNoMoveAfterFailure ==
    \A p \in Procs :
        (Name(p) = "deploy_to_github_pages" /\ HasFailed(p)) =>
            /\ Len(calls[p]) = FirstFailure(p).issued
            /\ IsPrefix([k \in 1..Len(calls[p]) |-> calls[p][k].op],
                        DeployOps(Len(Args(p).files.items)))
            /\ \A c \in CreatedBy(p) : c.kind = "commit" => ~IsAncestor(c, ref)
            /\ Done(p)
            /\ result[p].kind = "return"
            /\ result[p].isError = "true"
            /\ result[p].body.success = FALSE
            /\ CreatedBy(p) \subseteq objects

\* a deploy of two files created its blobs, tree and commit, and its
\* reference update was rejected because the branch had moved: the branch
\* stays where the other deploy put it and the objects stay upstream
C13_Witness ==
    \E p \in Procs :
        /\ Name(p) = "deploy_to_github_pages" /\ HasFailed(p)
        /\ Len(Args(p).files.items) = 2
        /\ Len(calls[p]) = 7
        /\ FirstFailure(p).call = 7
        /\ caught[p] = NotFastForward
        /\ newCommitSha[p] \in objects
        /\ ref # newCommitSha[p] /\ ref # C0
(***************************************************************************)
(* C14: racing deploys do not silently lose an update.  The handler never  *)
(* asks for a forced update, so upstream takes only fast-forwards.  When   *)
(* two deploys of the same branch have both read the same tip C0 before    *)
(* either updated the reference, at most one of them returns success; the  *)
(* branch then ends at that invocation's commit, whose sole parent is C0,  *)
(* and the other returns a failure envelope flagged isError without        *)
(* changing the reference.  In every reachable state the branch tip is C0  *)
(* or a commit whose parent chain leads back to C0 through commits whose   *)
(* invocations each reported success.                                      *)
(***************************************************************************)
\* p is a deploy that has read the tip c
ReadTip(p, c) ==
    /\ Name(p) = "deploy_to_github_pages"
    /\ Answered(p, 1) /\ ResponseTo(p, 1).ok /\ ResponseTo(p, 1).sha = c

\* p returned the failure envelope
FailedFlagged(p) ==
    /\ Done(p) /\ result[p].kind = "return"
    /\ result[p].isError = "true" /\ result[p].body.success = FALSE

RECURSIVE ChainOfSuccesses(_)
\* c is C0, or the commit of an invocation that reported success, with a sole
\* parent of which the same holds
ChainOfSuccesses(c) ==
    \/ c = C0
    \/ /\ \E p \in Procs : Succeeded(p) /\ newCommitSha[p] = c
       /\ Len(c.parents) = 1
       /\ ChainOfSuccesses(c.parents[1])

C14_NoLostUpdate ==
    /\ \A p \in Procs : \A k \in 1..Len(calls[p]) :
            calls[p][k].op = "updateRef" => "force" \notin DOMAIN calls[p][k].params
    /\ \A p, q \in Procs : \A tip \in objects :
            (p # q /\ ReadTip(p, tip) /\ ReadTip(q, tip)) =>
                /\ ~(Succeeded(p) /\ Succeeded(q))
                /\ Succeeded(p) =>
                        /\ ref = newCommitSha[p]
                        /\ ref.parents = <<tip>>
                        /\ Done(q) => FailedFlagged(q)
                        /\ ~IsAncestor(newCommitSha[q], ref)
    /\ ChainOfSuccesses(ref)

\* two deploys read the same tip; one moved the branch and reported success,
\* the other created its commit on the same parent and was refused
C14_Witness ==
    \E p, q \in Procs :
        /\ p # q /\ ReadTip(p, C0) /\ ReadTip(q, C0)
        /\ Succeeded(p) /\ ref = newCommitSha[p]
        /\ FailedFlagged(q) /\ caught[q] = NotFastForward
        /\ newCommitSha[q].parents = <<C0>>
        /\ newCommitSha[q] # newCommitSha[p]
====
